---- MODULE Spec2Model ----
(***************************************************************************)
(* A model of newportESP.py: the driver of Newport's ESP motion           *)
(* controllers over a serial port.                                        *)
(*                                                                         *)
(* Several callers (threads) share one ESP object.  Each caller invokes    *)
(* public methods of ESP and of one Axis; a method runs as a stack of      *)
(* activations, and takes one step of the model at every access to the     *)
(* lock or to the serial port.  Everything a method does between two such  *)
(* accesses is local to the caller and is folded into the step before it.  *)
(*                                                                         *)
(* The controller is the environment: it acts on a frame when the frame    *)
(* is written, and sends one reply line per query frame.  A reply that has *)
(* been sent may still arrive too late for a read: a read either takes the *)
(* oldest unread reply or times out and returns the empty string.          *)
(***************************************************************************)
EXTENDS Integers, Sequences, FiniteSets, TLC

VARIABLES
  lock,       \* ESP.lock: its owner, or Free
  inbuf,      \* reply lines the controller has sent and no read has taken
  ctlMoving,  \* controller: a motion is active on the axis
  ctlError,   \* controller: the error report its next TB? reply carries
  stack,      \* per caller: the activations of its current call, innermost last
  op,         \* per caller: the public call in progress (or the last one)
  log,        \* per caller: the serial accesses of that call, oldest first; a
              \* new round of Axis.wait's loop forgets those of the round before
  out,        \* per caller: how that call ended
  handler,    \* the handler of SIGINT, as signal.getsignal returns it
  dki         \* per caller: the DelayedKeyboardInterrupt of its read

vars == <<lock, inbuf, ctlMoving, ctlError, stack, op, log, out, handler, dki>>

----------------------------------------------------------------------------
(* Bounds of the model *)

\* number of concurrent callers sharing the ESP object
NCallers == 2
\* reply lines sent by the controller and not yet read (RTS/CTS flow control
\* holds a writer back while that many are pending)
MaxInbuf == 2

Callers == 1..NCallers
Free == 0

----------------------------------------------------------------------------
(* Python values *)

PyNone == [t |-> "None", v |-> ""]
PyStr(s) == [t |-> "str", v |-> s]
PyInt(s) == [t |-> "int", v |-> s]
PyFloat(s) == [t |-> "float", v |-> s]
PyBool(b) == [t |-> "bool", v |-> IF b THEN "True" ELSE "False"]

\* {'left': left, 'right': right} of two floats
PyDict(left, right) ==
  [t |-> "dict", v |-> "{'left': " \o left.v \o ", 'right': " \o right.v \o "}"]

\* str(x) for the values the driver formats
str(x) == x.v

\* how an activation ends: it returns a value or raises an exception
Return(x) == [kind |-> "return", val |-> x, exc |-> "", arg |-> ""]
Raise(e, a) == [kind |-> "raise", val |-> PyNone, exc |-> e, arg |-> a]
Running == [kind |-> "running", val |-> PyNone, exc |-> "", arg |-> ""]
Idle == [kind |-> "idle", val |-> PyNone, exc |-> "", arg |-> ""]

\* the axis index an Axis is built with when none is given
AxisIndex == 1
axis == PyInt(ToString(AxisIndex))

\* positions and steps handed to move_to and move_by
Positions == {PyFloat("1.2")}

----------------------------------------------------------------------------
(* Strings *)

Char(s, i) == SubSeq(s, i, i)

\* s[0:-2]
StripEOL(s) == SubSeq(s, 1, Len(s) - 2)

\* s[1:]
DropFirst(s) == SubSeq(s, 2, Len(s))

\* index of the first sep in s at or after position i, 0 if there is none
RECURSIVE Find(_, _, _)
Find(s, sep, i) ==
  IF i > Len(s) THEN 0
  ELSE IF Char(s, i) = sep THEN i
  ELSE Find(s, sep, i + 1)

\* s.split(sep)
RECURSIVE split(_, _)
split(s, sep) ==
  LET k == Find(s, sep, 1)
  IN IF k = 0 THEN <<s>>
     ELSE <<SubSeq(s, 1, k - 1)>> \o split(SubSeq(s, k + 1, Len(s)), sep)

Digits == {"0", "1", "2", "3", "4", "5", "6", "7", "8", "9"}

\* float(s) succeeds: an optional sign, digits with at most one point, at
\* least one digit (the replies of the model hold no exponent, inf or nan)
IsFloat(s) ==
  LET body == IF Len(s) > 0 /\ Char(s, 1) \in {"-", "+"} THEN DropFirst(s) ELSE s
      idx == 1..Len(body)
  IN /\ \A i \in idx : Char(body, i) \in Digits \cup {"."}
     /\ Cardinality({i \in idx : Char(body, i) = "."}) <= 1
     /\ \E i \in idx : Char(body, i) \in Digits

\* float(s): the number, written as Python writes it (the replies of the
\* model hold no leading or trailing zeros to drop), or a ValueError
float(s) ==
  IF ~IsFloat(s) THEN Raise("ValueError", s)
  ELSE LET unsigned == IF Char(s, 1) = "+" THEN DropFirst(s) ELSE s
           whole == Find(unsigned, ".", 1) = 0
           open == Char(unsigned, Len(unsigned)) = "."
       IN Return(PyFloat(IF whole THEN unsigned \o ".0"
                         ELSE IF open THEN unsigned \o "0"
                         ELSE unsigned))

----------------------------------------------------------------------------
(* NewportError *)

\* an error raised in place of the NewportError
IndexError_AsNewportError(string) == Raise("NewportError", string)

\* split_string[1] or split_string[2] of a list that short
IndexError(string) == Raise("IndexError", string)

\* NewportError(string): the exception the constructor builds, with the
\* attributes it has when __init__ returns, or the IndexError __init__ raises
\* on a string with fewer than three fields
NewportError(string) ==
  LET split_string == split(string, ",")
      code == split_string[1]
  IN IF Len(split_string) < 3
     THEN IndexError(string)
     ELSE [kind |-> "raise", val |-> PyNone, exc |-> "NewportError", arg |-> string,
           axis |-> IF Len(code) = 3 THEN PyStr(Char(code, 1)) ELSE PyNone,
           code |-> split_string[1],
           timestamp |-> DropFirst(split_string[2]),
           message |-> DropFirst(split_string[3])]

----------------------------------------------------------------------------
(* The controller *)

NoError == "0, 451322, NO ERROR DETECTED"

\* the error reports of the model: none, one with a code other than 0, and
\* one whose code starts with the digit 0
ErrorReports ==
  {NoError, "7, 451400, PARAMETER OUT OF RANGE", "06, 451600, COMMUNICATION TIME-OUT"}

EOL == "\r\n"

\* the two mnemonic letters of a frame, after its axis prefix
Mnemonic(frame) ==
  LET k == IF Len(frame) > 0 /\ Char(frame, 1) \in Digits THEN 2 ELSE 1
  IN SubSeq(frame, k, k + 1)

IsQueryFrame(frame) == Find(frame, "?", 1) # 0

\* the reply line the controller sends for a query frame when its motion
\* state is mv and its error report is err
ReplyWith(frame, mv, err) ==
  LET m == Mnemonic(frame)
  IN (CASE m = "MD" -> (IF mv THEN "0" ELSE "1")
        [] m = "TB" -> err
        [] m = "VE" -> "ESP300 Version 3.04 09/09/02"
        [] m = "TP" -> "1.2"
        [] m = "SL" -> "-5"
        [] m = "SR" -> "10"
        [] OTHER -> "0") \o EOL

\* the reply line the controller sends for a query frame
Reply(frame) == ReplyWith(frame, ctlMoving, ctlError)

\* a motion command starts a motion, stop and abort end it
ctlMovingAfter(frame) ==
  LET m == Mnemonic(frame)
  IN IF IsQueryFrame(frame) THEN ctlMoving
     ELSE IF m \in {"PA", "PR", "MV", "OR", "MT"} THEN TRUE
     ELSE IF m \in {"ST", "AB", "MF"} THEN FALSE
     ELSE ctlMoving

\* reading the error report clears it
ctlErrorAfter(frame) ==
  IF IsQueryFrame(frame) /\ Mnemonic(frame) = "TB" THEN NoError ELSE ctlError

----------------------------------------------------------------------------
(* Activations *)

\* an activation: its function, where it is, its arguments, and for Axis.wait
\* the number of serial accesses its call had made when the loop began
Rec(fn, pc, string, ax, flag) ==
  [fn |-> fn, pc |-> pc, string |-> string, axis |-> ax, flag |-> flag, mark |-> 0]

Top(stk) == stk[Len(stk)]
Pop(stk) == SubSeq(stk, 1, Len(stk) - 1)

\* ESP.query(string, axis, check_error), about to take the lock
ESP_query(string, ax, check_error) == <<Rec("query", "lock", string, ax, check_error)>>

\* ESP.write(string, axis), about to write
ESP_write(string, ax) == <<Rec("write", "write", string, ax, FALSE)>>

\* Axis.write(string): the command goes to the axis
Axis_write(string) == ESP_write(string, axis)

\* Axis.query(string)
Axis_query(string) == ESP_query(string, axis, FALSE)

\* ESP.read_error()
read_error == ESP_query("TB", PyNone, FALSE)

\* ESP.raise_error(), waiting for read_error
raise_error == <<Rec("raise_error", "err", "", PyNone, FALSE)>> \o read_error

\* Axis.moving, waiting for its query
moving == <<Rec("moving", "query", "", PyNone, FALSE)>> \o Axis_query("MD")

\* Axis.wait(), waiting for a sample of moving
wait(n) == <<[Rec("wait", "moving", "", PyNone, FALSE) EXCEPT !.mark = n]>> \o moving

\* Axis.travel_limits(left, right): its arguments, and left_lim once it is set
travel_limits(pc, left, right, left_lim) ==
  [fn |-> "travel_limits", pc |-> pc, string |-> "", axis |-> PyNone, flag |-> FALSE,
   mark |-> 0, left |-> left, right |-> right, left_lim |-> left_lim]

\* the frame ESP.write puts on the serial port
Frame(string, ax) == (IF ax.t # "None" THEN str(ax) ELSE "") \o string \o "\r"

\* the frame the activation on top of a stack writes next: ESP.write's own,
\* or the query form ESP.query hands to ESP.write
NextFrame(top) ==
  IF top.fn = "query" THEN Frame(top.string \o "?", top.axis)
  ELSE Frame(top.string, top.axis)

\* ESP.raise_error, once read_error has returned err: err[0] != "0" raises
\* the error, and err[0] of an empty string is an IndexError
raise_error_ends(err) ==
  IF err = "" THEN Raise("IndexError", "")
  ELSE IF Char(err, 1) # "0" THEN NewportError(err)
  ELSE Return(PyNone)

\* a moving that returns True when the motion is finished, as its docstring has it
moving_ends_Inverted(reply) == Return(PyBool(reply = "1"))

\* Axis.moving, once its query has returned reply
moving_ends(reply) == Return(PyBool(reply # "1"))

\* a guard that never raises
guard_raises_Never(m) == FALSE

\* check_previous_motion_is_done: if self.moving, raise
guard_raises(m) == m = PyBool(TRUE)

\* move_up, move_down: if not self.moving, write the jog command
jog_writes(m) == m = PyBool(FALSE)

\* a wait that returns after its first sample, whatever it is
wait_goes_on_Never(m) == FALSE

\* Axis.wait: while self.moving
wait_goes_on(m) == m = PyBool(TRUE)

\* a with-block that keeps the lock when an exception leaves it
leaves_with_Never(top) == FALSE

\* an exception that passes through the activation top leaves a with-block
\* of ESP.query
leaves_with(top) == top.fn = "query"

\* a travel_limits that sets the left limit only
sets_right_Never(right) == FALSE

\* Axis.travel_limits: if right is not None, once left is written
sets_right(right) == right # PyNone

\* what a caller does, up to its next access to the lock or the port, when the
\* activation above stk ends with r, its call having made n serial accesses:
\* the stack it is left with, the outcome of the whole call once the stack is
\* empty, whether a with-block of ESP.query was left by the exception, which
\* releases the lock, and the accesses log keeps (-1: all of them)
RECURSIVE Resume(_, _, _, _)
Resume(stk, r, unlock, n) ==
  IF stk = <<>> THEN [stack |-> <<>>, out |-> r, unlock |-> unlock, keep |-> -1]
  ELSE
    LET top == Top(stk)
        rest == Pop(stk)
        Go(s) == [stack |-> s, out |-> Running, unlock |-> unlock, keep |-> -1]
    IN IF r.kind = "raise" THEN Resume(rest, r, unlock \/ leaves_with(top), n)
       ELSE CASE top.fn = "query" /\ top.pc = "err1" ->
                   Go(rest \o <<[top EXCEPT !.pc = "write"]>>)
              [] top.fn = "query" /\ top.pc = "err2" ->
                   Go(rest \o <<[top EXCEPT !.pc = "read"]>>)
              [] top.fn = "raise_error" ->
                   Resume(rest, raise_error_ends(r.val.v), unlock, n)
              [] top.fn = "moving" ->
                   Resume(rest, moving_ends(r.val.v), unlock, n)
              [] top.fn = "wait" ->
                   IF wait_goes_on(r.val)
                   THEN [Go(rest \o wait(top.mark)) EXCEPT !.keep = top.mark]
                   ELSE Resume(rest, Return(PyNone), unlock, n)
              [] top.fn = "move" ->
                   IF top.flag THEN Go(rest \o wait(n))
                   ELSE Resume(rest, Return(PyNone), unlock, n)
              [] top.fn = "guard" ->
                   IF guard_raises(r.val)
                   THEN Resume(rest, Raise("RuntimeError",
                                           "Previous motion is not done! Aborting."),
                               unlock, n)
                   ELSE Go(rest \o <<Rec("jog", "moving", top.string, PyNone, FALSE)>>
                                \o moving)
              [] top.fn = "jog" ->
                   IF jog_writes(r.val) THEN Go(rest \o Axis_write(top.string))
                   ELSE Resume(rest, Return(PyNone), unlock, n)
              [] top.fn = "travel_limits" /\ top.pc = "SL" ->
                   LET left_lim == float(r.val.v)
                   IN IF left_lim.kind = "raise" THEN Resume(rest, left_lim, unlock, n)
                      ELSE Go(rest \o <<[top EXCEPT !.pc = "SR",
                                                    !.left_lim = left_lim.val]>>
                                   \o Axis_query("SR"))
              [] top.fn = "travel_limits" /\ top.pc = "SR" ->
                   LET right_lim == float(r.val.v)
                   IN IF right_lim.kind = "raise" THEN Resume(rest, right_lim, unlock, n)
                      ELSE Resume(rest, Return(PyDict(top.left_lim, right_lim.val)),
                                  unlock, n)
              [] top.fn = "travel_limits" /\ top.pc = "left" ->
                   IF sets_right(top.right)
                   THEN Go(rest \o <<[top EXCEPT !.pc = "right"]>>
                                \o Axis_write("SR" \o str(top.right)))
                   ELSE Resume(rest, Return(PyNone), unlock, n)
              [] top.fn = "travel_limits" /\ top.pc = "right" ->
                   Resume(rest, Return(PyNone), unlock, n)
              [] top.fn = "catch_error" /\ top.pc = "func" ->
                   Go(rest \o <<[top EXCEPT !.pc = "write"]>>
                           \o ESP_write("TB?", PyStr("")))
              [] top.fn = "catch_error" /\ top.pc = "write" ->
                   Go(rest \o <<[top EXCEPT !.pc = "read_error"]>> \o read_error)
              [] top.fn = "catch_error" /\ top.pc = "read_error" ->
                   LET error_string == r.val.v
                   IN IF error_string = ""
                      THEN Resume(rest, Raise("IndexError", ""), unlock, n)
                      ELSE IF Char(error_string, 1) # "0"
                      THEN Go(rest \o <<[top EXCEPT !.pc = "abort",
                                                    !.string = error_string]>>
                                   \o ESP_write("AB", PyNone))
                      ELSE Resume(rest, Return(PyNone), unlock, n)
              [] top.fn = "catch_error" /\ top.pc = "abort" ->
                   Resume(rest, NewportError(top.string), unlock, n)
              [] OTHER -> Resume(rest, r, unlock, n)

----------------------------------------------------------------------------
(* The public calls *)

Call(name, pos, w) == [name |-> name, pos |-> pos, wait |-> w]

NoCall == Call("", PyNone, FALSE)

\* the calls made on the ESP object itself
ESPCalls ==
  {Call(n, PyNone, FALSE) :
     n \in {"version", "query_check_error", "read_error", "raise_error", "abort"}}

\* the calls made on an Axis
AxisCalls ==
  {Call(n, PyNone, FALSE) : n \in {"stop", "moving", "wait", "move_up", "move_down"}}
  \cup {Call(n, p, w) : n \in {"move_to", "move_by"}, p \in Positions, w \in BOOLEAN}

\* the calls of methods wrapped by catch_error, as the comments before
\* move_to and move_by have it, beside a plain query
CatchCalls ==
  {Call(n, p, FALSE) : n \in {"catch_error(move_to)", "catch_error(move_by)"},
                       p \in Positions}
  \cup {Call("read_error", PyNone, FALSE)}

\* catch_error(func)(pos): inner, waiting for func; error_string[0] is not
\* '0' is taken as CPython decides it, where the strings of one character
\* are shared objects
catch_error(func) == <<Rec("catch_error", "func", "", PyNone, FALSE)>> \o func

\* the limits handed to travel_limits
Limits == {PyNone, PyInt("-3")}

\* the calls of Axis.travel_limits
LimitCalls ==
  {[name |-> "travel_limits", pos |-> PyNone, wait |-> FALSE, left |-> l, right |-> r] :
     l \in Limits, r \in Limits}

\* the activations a public call starts with
Start(c) ==
  CASE c.name = "version" -> ESP_query("VE", PyNone, FALSE)
    [] c.name = "query_check_error" -> ESP_query("VE", PyNone, TRUE)
    [] c.name = "read_error" -> read_error
    [] c.name = "raise_error" -> raise_error
    [] c.name = "abort" -> ESP_write("AB", PyNone)
    [] c.name = "stop" -> Axis_write("ST")
    [] c.name = "moving" -> moving
    [] c.name = "wait" -> wait(0)
    [] c.name = "move_to" ->
         <<Rec("move", "write", "", PyNone, c.wait)>> \o Axis_write("PA" \o str(c.pos))
    [] c.name = "move_by" ->
         <<Rec("move", "write", "", PyNone, c.wait)>> \o Axis_write("PR" \o str(c.pos))
    [] c.name = "move_up" -> <<Rec("guard", "moving", "MV-", PyNone, FALSE)>> \o moving
    [] c.name = "move_down" -> <<Rec("guard", "moving", "MV+", PyNone, FALSE)>> \o moving
    [] c.name = "catch_error(move_to)" ->
         catch_error(<<Rec("move", "write", "", PyNone, c.wait)>>
                       \o Axis_write("PA" \o str(c.pos)))
    [] c.name = "catch_error(move_by)" ->
         catch_error(<<Rec("move", "write", "", PyNone, c.wait)>>
                       \o Axis_write("PR" \o str(c.pos)))
    [] c.name = "travel_limits" ->
         IF c.left = PyNone /\ c.right = PyNone
         THEN <<travel_limits("SL", c.left, c.right, PyNone)>> \o Axis_query("SL")
         ELSE IF c.left # PyNone
         THEN <<travel_limits("left", c.left, c.right, PyNone)>>
                \o Axis_write("SL" \o str(c.left))
         ELSE <<travel_limits("right", c.left, c.right, PyNone)>>
                \o Axis_write("SR" \o str(c.right))

----------------------------------------------------------------------------
(* The state machine *)

\* no DelayedKeyboardInterrupt: the caller is not in ESP.read
NoDKI ==
  [pc |-> "none", signal_received |-> FALSE, old_handler |-> "", threaded |-> FALSE,
   str |-> ""]

Init ==
  /\ lock = Free
  /\ inbuf = <<>>
  /\ ctlMoving = FALSE
  /\ ctlError = NoError
  /\ stack = [t \in Callers |-> <<>>]
  /\ op = [t \in Callers |-> NoCall]
  /\ log = [t \in Callers |-> <<>>]
  /\ out = [t \in Callers |-> Idle]
  /\ handler = "default_int_handler"
  /\ dki = [t \in Callers |-> NoDKI]

Logged(l, rw, data) == Append(l, [rw |-> rw, data |-> data])

\* the first n entries of a log, all of them if n is -1
Kept(l, n) == IF n < 0 THEN l ELSE SubSeq(l, 1, n)

\* a call has ended and its outcome is not yet back with its caller
Finished(t) == out[t].kind \in {"return", "raise"}

\* Handing an outcome back is local to the caller, so it is taken before any
\* other step: no interleaving of the accesses to the lock and to the port is
\* lost, and a caller between two calls has one state only.
Quiet == \A t \in Callers : ~Finished(t)

\* the caller goes on after the activation on top of its stack ended with r,
\* its call having made the serial accesses l; unlock: that activation was
\* ESP.query leaving its with-block, which releases the lock
Continue(t, stk, r, l, unlock) ==
  LET k == Resume(stk, r, unlock, Len(l))
  IN /\ stack' = [stack EXCEPT ![t] = k.stack]
     /\ out' = [out EXCEPT ![t] = k.out]
     /\ log' = [log EXCEPT ![t] = Kept(l, k.keep)]
     /\ lock' = IF k.unlock /\ lock = t THEN Free ELSE lock

\* a caller with no call in progress makes a public call
Invoke(t, calls) ==
  /\ Quiet
  /\ stack[t] = <<>>
  /\ \E c \in calls :
       /\ op' = [op EXCEPT ![t] = c]
       /\ stack' = [stack EXCEPT ![t] = Start(c)]
  /\ log' = [log EXCEPT ![t] = <<>>]
  /\ out' = [out EXCEPT ![t] = Running]
  /\ UNCHANGED <<lock, inbuf, ctlMoving, ctlError, handler, dki>>

\* the outcome of a finished call goes back to its caller
Done(t) ==
  /\ Finished(t)
  /\ op' = [op EXCEPT ![t] = NoCall]
  /\ log' = [log EXCEPT ![t] = <<>>]
  /\ out' = [out EXCEPT ![t] = Idle]
  /\ UNCHANGED <<lock, inbuf, ctlMoving, ctlError, stack, handler, dki>>

\* a query that does not wait for the lock
LockFree_NotAsked == TRUE

\* lock.acquire() goes through
LockFree == lock = Free

\* ESP.query: with self.lock, then the error check if it is asked for
Acquire(t) ==
  /\ Quiet
  /\ stack[t] # <<>>
  /\ LET top == Top(stack[t])
     IN /\ top.fn = "query" /\ top.pc = "lock"
        /\ LockFree
        /\ lock' = t
        /\ stack' = [stack EXCEPT ![t] =
                       IF top.flag
                       THEN Pop(stack[t]) \o <<[top EXCEPT !.pc = "err1"]>> \o raise_error
                       ELSE Pop(stack[t]) \o <<[top EXCEPT !.pc = "write"]>>]
  /\ UNCHANGED <<inbuf, ctlMoving, ctlError, op, log, out, handler, dki>>

\* the caller's innermost activation is at a write to the serial port
AtWrite(t) ==
  /\ stack[t] # <<>>
  /\ Top(stack[t]).pc = "write"
  /\ Top(stack[t]).fn \in {"query", "write"}

\* ESP.write: self.ser.write(...); the controller acts on the frame
SerWrite(t) ==
  /\ Quiet
  /\ AtWrite(t)
  /\ LET top == Top(stack[t])
         frame == NextFrame(top)
     IN /\ IsQueryFrame(frame) => Len(inbuf) < MaxInbuf
        /\ inbuf' = IF IsQueryFrame(frame) THEN Append(inbuf, Reply(frame)) ELSE inbuf
        /\ ctlMoving' = ctlMovingAfter(frame)
        /\ ctlError' = ctlErrorAfter(frame)
        /\ IF top.fn = "write"
           THEN Continue(t, Pop(stack[t]), Return(PyNone), Logged(log[t], "w", frame), FALSE)
           ELSE /\ stack' = [stack EXCEPT ![t] =
                       IF top.flag
                       THEN Pop(stack[t]) \o <<[top EXCEPT !.pc = "err2"]>> \o raise_error
                       ELSE Pop(stack[t]) \o <<[top EXCEPT !.pc = "read"]>>]
                /\ log' = [log EXCEPT ![t] = Logged(log[t], "w", frame)]
                /\ UNCHANGED <<lock, out>>
  /\ UNCHANGED <<op, handler, dki>>

\* the caller's innermost activation is ESP.query at its read
AtRead(t) ==
  /\ stack[t] # <<>>
  /\ Top(stack[t]).fn = "query"
  /\ Top(stack[t]).pc = "read"

\* ESP.read with str the line readline returned, then ESP.query returns it
\* and leaves its with-block, which releases the lock
ReadReturns(t, line) ==
  Continue(t, Pop(stack[t]), Return(PyStr(StripEOL(line))), Logged(log[t], "r", line), TRUE)

\* ESP.read: readline returns the oldest reply line; no SIGINT comes during
\* the read, whose DelayedKeyboardInterrupt leaves the handler as it was
SerRead(t) ==
  /\ Quiet
  /\ AtRead(t)
  /\ inbuf # <<>>
  /\ inbuf' = Tail(inbuf)
  /\ ReadReturns(t, Head(inbuf))
  /\ UNCHANGED <<ctlMoving, ctlError, op, handler, dki>>

\* ESP.read: no line arrives within the timeout, readline returns ""
ReadTimeout(t) ==
  /\ Quiet
  /\ AtRead(t)
  /\ ReadReturns(t, "")
  /\ UNCHANGED <<inbuf, ctlMoving, ctlError, op, handler, dki>>

\* the controller ends the motion
MotionDone ==
  /\ Quiet
  /\ ctlMoving
  /\ ctlMoving' = FALSE
  /\ UNCHANGED <<lock, inbuf, ctlError, stack, op, log, out, handler, dki>>

\* the controller detects an error
Fault ==
  /\ Quiet
  /\ ctlError = NoError
  /\ ctlError' \in ErrorReports \ {NoError}
  /\ UNCHANGED <<lock, inbuf, ctlMoving, stack, op, log, out, handler, dki>>

\* callers of the ESP object: queries, error checks and abort
Next ==
  \/ \E t \in Callers : Invoke(t, ESPCalls)
  \/ \E t \in Callers : Done(t)
  \/ \E t \in Callers : Acquire(t)
  \/ \E t \in Callers : SerWrite(t)
  \/ \E t \in Callers : SerRead(t)
  \/ \E t \in Callers : ReadTimeout(t)
  \/ Fault

Spec == Init /\ [][Next]_vars

\* callers of one Axis: motion commands and samples of the motion state
NextMotion ==
  \/ \E t \in Callers : Invoke(t, AxisCalls)
  \/ \E t \in Callers : Done(t)
  \/ \E t \in Callers : Acquire(t)
  \/ \E t \in Callers : SerWrite(t)
  \/ \E t \in Callers : SerRead(t)
  \/ \E t \in Callers : ReadTimeout(t)
  \/ MotionDone

SpecMotion == Init /\ [][NextMotion]_vars

----------------------------------------------------------------------------
(* SIGINT during ESP.read *)

\* the caller that runs on the main thread; the others run on threads of
\* their own
MainThread == 1

\* what the application has set for SIGINT before the read: Python's own
\* handler, a handler of its own that returns, or that the signal is ignored
Handlers == {"default_int_handler", "app_handler", "SIG_IGN"}

\* DelayedKeyboardInterrupt.handler, bound to the object of a read
DKIHandler == "DelayedKeyboardInterrupt.handler"

\* old_handler(*signal_received): Python's handler raises KeyboardInterrupt,
\* the application's returns, and SIG_IGN, a number, cannot be called
CallHandler(old_handler) ==
  CASE old_handler = "default_int_handler" -> Raise("KeyboardInterrupt", "")
    [] old_handler = "app_handler" -> Return(PyNone)
    [] OTHER -> Raise("TypeError", "object is not callable")

\* the application has set any of the handlers
InitSignal ==
  /\ lock = Free
  /\ inbuf = <<>>
  /\ ctlMoving = FALSE
  /\ ctlError = NoError
  /\ stack = [t \in Callers |-> <<>>]
  /\ op = [t \in Callers |-> NoCall]
  /\ log = [t \in Callers |-> <<>>]
  /\ out = [t \in Callers |-> Idle]
  /\ handler \in Handlers
  /\ dki = [t \in Callers |-> NoDKI]

\* DelayedKeyboardInterrupt.__enter__: signal.signal raises ValueError on
\* any thread but the main one, before it changes anything
DKI_enter(t) ==
  /\ Quiet
  /\ AtRead(t)
  /\ dki[t].pc = "none"
  /\ dki' = [dki EXCEPT ![t] =
               [pc |-> "readline", signal_received |-> FALSE, old_handler |-> handler,
                threaded |-> t # MainThread, str |-> ""]]
  /\ handler' = IF t = MainThread THEN DKIHandler ELSE handler
  /\ UNCHANGED <<lock, inbuf, ctlMoving, ctlError, stack, op, log, out>>

\* ESP.read: str = self.ser.readline(), the oldest reply line
Readline(t) ==
  /\ Quiet
  /\ dki[t].pc = "readline"
  /\ inbuf # <<>>
  /\ inbuf' = Tail(inbuf)
  /\ dki' = [dki EXCEPT ![t].pc = "exit", ![t].str = Head(inbuf)]
  /\ UNCHANGED <<lock, ctlMoving, ctlError, stack, op, log, out, handler>>

\* ESP.read: str = self.ser.readline(), timed out
ReadlineTimeout(t) ==
  /\ Quiet
  /\ dki[t].pc = "readline"
  /\ dki' = [dki EXCEPT ![t].pc = "exit", ![t].str = ""]
  /\ UNCHANGED <<lock, inbuf, ctlMoving, ctlError, stack, op, log, out, handler>>

\* DelayedKeyboardInterrupt.__exit__, then ESP.read returns str[0:-2], or
\* the exception of the old handler leaves ESP.read and ESP.query
DKI_exit(t) ==
  /\ Quiet
  /\ dki[t].pc = "exit"
  /\ LET d == dki[t]
         r == IF ~d.threaded /\ d.signal_received
              THEN CallHandler(d.old_handler) ELSE Return(PyNone)
     IN /\ handler' = IF ~d.threaded THEN d.old_handler ELSE handler
        /\ IF r.kind = "raise"
           THEN Continue(t, stack[t], r, Logged(log[t], "r", d.str), FALSE)
           ELSE ReadReturns(t, d.str)
  /\ dki' = [dki EXCEPT ![t] = NoDKI]
  /\ UNCHANGED <<inbuf, ctlMoving, ctlError, op>>

\* SIGINT comes while the main thread is inside the with-block of ESP.read:
\* Python runs the handler set, DelayedKeyboardInterrupt.handler
Sigint ==
  /\ Quiet
  /\ dki[MainThread].pc \in {"readline", "exit"}
  /\ handler = DKIHandler
  /\ ~dki[MainThread].signal_received
  /\ dki' = [dki EXCEPT ![MainThread].signal_received = TRUE]
  /\ UNCHANGED <<lock, inbuf, ctlMoving, ctlError, stack, op, log, out, handler>>

\* the queries made while SIGINT may come
SignalCalls == {Call(n, PyNone, FALSE) : n \in {"version", "read_error"}}

\* queries of the main thread and of other threads, and SIGINT
NextSignal ==
  \/ \E t \in Callers : Invoke(t, SignalCalls)
  \/ \E t \in Callers : Done(t)
  \/ \E t \in Callers : Acquire(t)
  \/ \E t \in Callers : SerWrite(t)
  \/ \E t \in Callers : DKI_enter(t)
  \/ \E t \in Callers : Readline(t)
  \/ \E t \in Callers : ReadlineTimeout(t)
  \/ \E t \in Callers : DKI_exit(t)
  \/ Sigint

SpecSignal == InitSignal /\ [][NextSignal]_vars

\* callers of one Axis reading and setting its travel limits
NextLimits ==
  \/ \E t \in Callers : Invoke(t, LimitCalls)
  \/ \E t \in Callers : Done(t)
  \/ \E t \in Callers : Acquire(t)
  \/ \E t \in Callers : SerWrite(t)
  \/ \E t \in Callers : SerRead(t)
  \/ \E t \in Callers : ReadTimeout(t)

SpecLimits == Init /\ [][NextLimits]_vars

----------------------------------------------------------------------------
(* Waiting for the end of a motion *)

\* the calls that wait for the end of a motion, beside a query of another
\* kind made by another caller
WaitCalls ==
  {Call("wait", PyNone, FALSE), Call("read_error", PyNone, FALSE)}
  \cup {Call("move_to", p, TRUE) : p \in Positions}

\* a reply comes too late for its read, while the serial input has room for
\* the replies of the queries to come
LateReply(t) ==
  /\ Len(inbuf) < MaxInbuf
  /\ ReadTimeout(t)

NextWait ==
  \/ \E t \in Callers : Invoke(t, WaitCalls)
  \/ \E t \in Callers : Done(t)
  \/ \E t \in Callers : Acquire(t)
  \/ \E t \in Callers : SerWrite(t)
  \/ \E t \in Callers : SerRead(t)
  \/ \E t \in Callers : LateReply(t)
  \/ MotionDone

\* every caller goes on with its call: a thread that can run does run, a
\* thread that asks for the lock gets it if the lock is free again and
\* again, a reply that has arrived is read unless the read times out first,
\* and a motion comes to its end
FairSpecWait ==
  /\ Init
  /\ [][NextWait]_vars
  /\ \A t \in Callers :
       /\ WF_vars(Done(t))
       /\ SF_vars(Acquire(t))
       /\ WF_vars(SerWrite(t))
       /\ SF_vars(SerRead(t))
  /\ WF_vars(MotionDone)

\* callers of methods wrapped by catch_error
NextCatch ==
  \/ \E t \in Callers : Invoke(t, CatchCalls)
  \/ \E t \in Callers : Done(t)
  \/ \E t \in Callers : Acquire(t)
  \/ \E t \in Callers : SerWrite(t)
  \/ \E t \in Callers : SerRead(t)
  \/ \E t \in Callers : ReadTimeout(t)
  \/ Fault

SpecCatch == Init /\ [][NextCatch]_vars

----------------------------------------------------------------------------
(* The decoding of error reports *)

\* code fields of one, two and three characters
ErrorCodes == {"0", "7", "06", "25", "125", "208", "010"}

\* a time stamp and a message, each as the controller sends it, after a
\* blank, and without the blank
ErrorTimestamps == {" 451322", "451322"}
ErrorMessages == {" NO ERROR DETECTED", " AXIS TIMEOUT", "AXIS TIMEOUT"}

\* error strings of three fields, and strings with fewer fields
ErrorStrings ==
  {c \o "," \o ts \o "," \o m :
     c \in ErrorCodes, ts \in ErrorTimestamps, m \in ErrorMessages}
  \cup {"", "7", "7, 451400"}

\* the controller holds any of the error strings
InitDecode ==
  /\ lock = Free
  /\ inbuf = <<>>
  /\ ctlMoving = FALSE
  /\ ctlError \in ErrorStrings
  /\ stack = [t \in Callers |-> <<>>]
  /\ op = [t \in Callers |-> NoCall]
  /\ log = [t \in Callers |-> <<>>]
  /\ out = [t \in Callers |-> Idle]
  /\ handler = "default_int_handler"
  /\ dki = [t \in Callers |-> NoDKI]

\* a caller evaluates NewportError(string) on the string the controller holds
Construct(t) ==
  /\ Quiet
  /\ out[t] = Idle
  /\ op' = [op EXCEPT ![t] = Call("NewportError", PyStr(ctlError), FALSE)]
  /\ out' = [out EXCEPT ![t] = NewportError(ctlError)]
  /\ UNCHANGED <<lock, inbuf, ctlMoving, ctlError, stack, log, handler, dki>>

NextDecode ==
  \/ \E t \in Callers : Construct(t)
  \/ \E t \in Callers : Done(t)

SpecDecode == InitDecode /\ [][NextDecode]_vars

----------------------------------------------------------------------------
(* What the claims speak of *)

\* the caller's query has written its frame and has not read the reply yet
InExchange(t) == AtRead(t)

\* the caller is at the write of a query's frame
AtQueryWrite(t) == AtWrite(t) /\ Top(stack[t]).fn = "query"

\* this step, the caller writes a frame on the serial port
Wrote(t) ==
  /\ Len(log'[t]) = Len(log[t]) + 1
  /\ log'[t][Len(log'[t])].rw = "w"

\* the frame the caller writes in a step where Wrote(t) holds
Written(t) == log'[t][Len(log'[t])].data

\* an access of a log
W(frame) == [rw |-> "w", data |-> frame]
R(line) == [rw |-> "r", data |-> line]

\* the caller can take a step of its call
CanStep(t) ==
  ENABLED (Acquire(t) \/ SerWrite(t) \/ SerRead(t) \/ ReadTimeout(t))

----------------------------------------------------------------------------
(* C1: under any interleaving of concurrent callers of ESP.query, the       *)
(* write-then-read pairs never overlap: while one query is between the      *)
(* write of its frame and its read, it holds the lock and no other caller   *)
(* is at the write of a query frame or at the read of a reply.              *)
C1_QueryPairsNeverOverlap ==
  \A t \in Callers :
    InExchange(t) =>
      /\ lock = t
      /\ \A u \in Callers \ {t} : ~InExchange(u) /\ ~AtQueryWrite(u)

\* one query is between its write and its read while another caller's query
\* waits for the lock
C1_Witness ==
  \E t, u \in Callers :
    /\ t # u
    /\ InExchange(t)
    /\ stack[u] # <<>> /\ Top(stack[u]).fn = "query" /\ Top(stack[u]).pc = "lock"

(* C2: all transport access goes through the lock: no frame is written to   *)
(* the transport by one caller while another caller's query is between the  *)
(* write of its frame and the read of its reply.                            *)
C2_NoWriteDuringExchange ==
  [][\A u \in Callers :
       Wrote(u) => \A t \in Callers \ {u} : ~InExchange(t)]_vars

(* C3: a query called with check_error=True, while no other caller holds    *)
(* the lock, always terminates; so as long as it runs, and no other caller  *)
(* holds the lock, it can take its next step.                               *)
C3_CheckedQueryGoesOn ==
  \A t \in Callers :
    (/\ op[t].name = "query_check_error"
     /\ out[t] = Running
     /\ Quiet
     /\ lock \in {Free, t}) => CanStep(t)

(* C4: if the read inside query times out or returns no data, the call      *)
(* fails with an error that propagates to the caller (a ProtocolError); it  *)
(* never returns normally in that case.                                     *)
C4_TimeoutRaises ==
  \A t \in Callers :
    (/\ Finished(t)
     /\ log[t] # <<>>
     /\ log[t][Len(log[t])] = R("")) => out[t].kind = "raise"

(* C5: move_up and move_down, when the guard samples the axis as Moving (a  *)
(* motion-done reply other than "1"), fail with the motion-in-progress      *)
(* error having made that one exchange only: they write no jog frame and    *)
(* no abort; move_to and move_by never fail.                                *)
C5_GuardedJog ==
  \A t \in Callers :
    /\ (/\ op[t].name \in {"move_up", "move_down"}
        /\ Len(log[t]) >= 2
        /\ StripEOL(log[t][2].data) # "1")
         => /\ out[t] = Raise("RuntimeError", "Previous motion is not done! Aborting.")
            /\ log[t] = <<W("1MD?\r"), log[t][2]>>
    /\ op[t].name \in {"move_to", "move_by"} => out[t].kind # "raise"

\* move_up has failed on a sample of Moving, and the motion is still active
C5_Witness ==
  \E t \in Callers :
    /\ op[t].name = "move_up"
    /\ out[t].kind = "raise"
    /\ log[t] = <<W("1MD?\r"), R("0\r\n")>>
    /\ ctlMoving

(* C6: for one axis driven by several concurrent callers, a jog frame (MV+  *)
(* or MV-) is never written to the transport while a motion started by an   *)
(* earlier command is still active on the controller.                       *)
C6_NoJogWhileActive ==
  [][\A t \in Callers :
       (Wrote(t) /\ Mnemonic(Written(t)) = "MV") => ~ctlMoving]_vars

(* C7: move_to and move_by write their positioning frame (PA or PR with the *)
(* argument, axis-prefixed) first, without sampling the motion state; they  *)
(* return nothing, at once without wait, and with wait only when the last   *)
(* sample of moving, taken after that write, has read the reply "1".        *)
C7_MoveThenWait ==
  \A t \in Callers :
    op[t].name \in {"move_to", "move_by"} =>
      LET frame == "1" \o (IF op[t].name = "move_to" THEN "PA" ELSE "PR")
                       \o str(op[t].pos) \o "\r"
      IN /\ log[t] = <<>> => AtWrite(t) /\ NextFrame(Top(stack[t])) = frame
         /\ log[t] # <<>> => log[t][1] = W(frame)
         /\ Finished(t) =>
              /\ out[t] = Return(PyNone)
              /\ log[t] = IF op[t].wait
                          THEN <<W(frame), W("1MD?\r"), R("1\r\n")>>
                          ELSE <<W(frame)>>

\* move_by with wait has returned after a round of the loop that read "1"
C7_Witness ==
  \E t \in Callers :
    /\ op[t].name = "move_by" /\ op[t].wait
    /\ Finished(t)
    /\ log[t][Len(log[t])] = R("1\r\n")

CodeField(line) == split(StripEOL(line), ",")[1]

(* C9: raise_error raises if and only if the code of the last-error reply   *)
(* differs from "0": for a 3-field reply with the code field "0" it returns *)
(* normally, and for any other code field it raises.                        *)
C9_RaisesIffCodeNotZero ==
  \A t \in Callers :
    (/\ op[t].name = "raise_error"
     /\ Finished(t)
     /\ Len(split(StripEOL(log[t][2].data), ",")) = 3)
      => (out[t].kind = "raise" <=> CodeField(log[t][2].data) # "0")

(* C10: whenever the error check detects a device error, an abort frame     *)
(* (AB, to the controller) is written before the error is raised to the     *)
(* caller.                                                                  *)
C10_AbortBeforeRaise ==
  \A t \in Callers :
    (Finished(t) /\ out[t].exc = "NewportError")
      => \E i \in 1..Len(log[t]) : log[t][i] = W("AB\r")

(* C11: for every 3-field error string "c,ts,msg" with a code field c of   *)
(* one to three characters, the decoded error follows the split by length:  *)
(* if c has three characters the axis is its first character and the code   *)
(* its other two; otherwise there is no axis and the code is all of c.      *)
C11_SplitByLength ==
  \A t \in Callers :
    (op[t].name = "NewportError" /\ Finished(t)) =>
      LET f == split(op[t].pos.v, ",")
          c == f[1]
      IN (Len(f) = 3 /\ Len(c) \in 1..3) =>
           /\ out[t].exc = "NewportError"
           /\ IF Len(c) = 3
              THEN out[t].axis = PyStr(Char(c, 1)) /\ out[t].code = DropFirst(c)
              ELSE out[t].axis = PyNone /\ out[t].code = c

(* C12: decoding "125,451322,AXIS TIMEOUT" yields the axis "1", the code    *)
(* "25", the time stamp "51322" and the message "AXIS TIMEOUT".             *)
C12_DecodeExample ==
  \A t \in Callers :
    (/\ op[t].name = "NewportError"
     /\ Finished(t)
     /\ op[t].pos.v = "125,451322,AXIS TIMEOUT") =>
      /\ out[t].exc = "NewportError"
      /\ out[t].axis = PyStr("1")
      /\ out[t].code = "25"
      /\ out[t].timestamp = "51322"
      /\ out[t].message = "AXIS TIMEOUT"

(* C15: decoding an error reply with fewer than three comma-separated       *)
(* fields fails with an error of its own (the MalformedReplyError of the    *)
(* specification is Python's IndexError) and builds no NewportError.        *)
C15_TooFewFieldsFails ==
  \A t \in Callers :
    (/\ op[t].name = "NewportError"
     /\ Finished(t)
     /\ Len(split(op[t].pos.v, ",")) < 3) =>
      /\ out[t].kind = "raise"
      /\ out[t].exc = "IndexError"

\* the decoding of a string of two fields has failed
C15_Witness ==
  \E t \in Callers :
    /\ op[t].name = "NewportError"
    /\ op[t].pos.v = "7, 451400"
    /\ out[t].exc = "IndexError"

\* the jog frames in the log of a call of move_up or move_down
JogFrames(t) ==
  {i \in 1..Len(log[t]) :
     log[t][i] = W(IF op[t].name = "move_up" THEN "1MV-\r" ELSE "1MV+\r")}

(* C16: every call of move_up or move_down has exactly one of two outcomes: *)
(* it fails with the motion-in-progress error having written no jog frame,  *)
(* or it writes exactly one jog frame for the axis; so whenever the guard   *)
(* samples Idle the jog frame is written, whatever the controller's motion  *)
(* state becomes during the call.                                           *)
C16_JogOrFail ==
  \A t \in Callers :
    (op[t].name \in {"move_up", "move_down"} /\ Finished(t)) =>
      \/ /\ out[t] = Raise("RuntimeError", "Previous motion is not done! Aborting.")
         /\ JogFrames(t) = {}
      \/ /\ out[t].kind = "return"
         /\ Cardinality(JogFrames(t)) = 1

\* line is a reply the controller sends to frame, in some state of its own
CanAnswer(frame, line) ==
  \E mv \in BOOLEAN, err \in ErrorReports : line = ReplyWith(frame, mv, err)

(* C17: for any sequence and interleaving of query and write calls, also    *)
(* after an earlier query's read has timed out and the reply has arrived    *)
(* afterwards, the line a query reads is the controller's reply to the      *)
(* frame that this same query wrote, never the reply to another request.    *)
C17_ReplyOfOwnRequest ==
  \A t \in Callers :
    \A i \in 1..(Len(log[t]) - 1) :
      (/\ log[t][i].rw = "w"
       /\ IsQueryFrame(log[t][i].data)
       /\ log[t][i + 1].rw = "r"
       /\ log[t][i + 1].data # "") => CanAnswer(log[t][i].data, log[t][i + 1].data)

\* the frames travel_limits writes for the limits it is given
SetFrames(left, right) ==
  (IF left # PyNone THEN <<W("1SL" \o str(left) \o "\r")>> ELSE <<>>)
  \o (IF right # PyNone THEN <<W("1SR" \o str(right) \o "\r")>> ELSE <<>>)

\* the accesses of a log are a beginning of those of the sequence s
Began(l, s) == Len(l) <= Len(s) /\ l = SubSeq(s, 1, Len(l))

(* C13, as first stated: travel_limits with both arguments absent performs  *)
(* exactly the two queries SL? then SR? and returns the pair of the two     *)
(* replies parsed as numbers.                                               *)
C13_AlwaysBothQueries ==
  \A t \in Callers :
    (/\ op[t].name = "travel_limits"
     /\ op[t].left = PyNone /\ op[t].right = PyNone
     /\ Finished(t)) =>
      /\ Len(log[t]) = 4
      /\ out[t].kind = "return"

(* C13: travel_limits keeps its two shapes.  With both arguments absent it  *)
(* writes no set frame; it makes the exchange SL? and then the exchange     *)
(* SR?, fails with a ValueError as soon as a reply read is not a number     *)
(* (an empty reply after a time-out), and otherwise returns the pair of the *)
(* two replies parsed as numbers.  With an argument present it writes       *)
(* exactly the set frames of the arguments given (SL for left, then SR for  *)
(* right), reads nothing and returns nothing.                               *)
C13_TravelLimitsShapes ==
  \A t \in Callers :
    op[t].name = "travel_limits" =>
      IF op[t].left = PyNone /\ op[t].right = PyNone
      THEN /\ \A i \in 1..Len(log[t]) :
                /\ i = 1 => log[t][i] = W("1SL?\r")
                /\ i = 3 => log[t][i] = W("1SR?\r")
                /\ i \in {2, 4} => log[t][i].rw = "r"
                /\ i <= 4
           /\ Finished(t) =>
                LET last == float(StripEOL(log[t][Len(log[t])].data))
                IN /\ Len(log[t]) \in {2, 4}
                   /\ out[t].kind = "raise" <=> last.kind = "raise"
                   /\ out[t].kind = "raise" => out[t] = last
                   /\ out[t].kind = "return" =>
                        /\ Len(log[t]) = 4
                        /\ out[t] = Return(PyDict(float(StripEOL(log[t][2].data)).val,
                                                   last.val))
      ELSE /\ Began(log[t], SetFrames(op[t].left, op[t].right))
           /\ Finished(t) =>
                /\ log[t] = SetFrames(op[t].left, op[t].right)
                /\ out[t] = Return(PyNone)

\* travel_limits() has returned the pair of the replies "-5" and "10"
C13_Witness ==
  \E t \in Callers :
    /\ op[t].name = "travel_limits"
    /\ out[t] = Return(PyDict(PyFloat("-5.0"), PyFloat("10.0")))
    /\ log[t] = <<W("1SL?\r"), R("-5\r\n"), W("1SR?\r"), R("10\r\n")>>

(* C14: a SIGINT that comes on the main thread while ESP.read is blocked in *)
(* its read does not cut the read short; when the read has completed or     *)
(* timed out the handler installed before the read is reinstated and the    *)
(* interrupt is delivered to it: Python's handler raises KeyboardInterrupt, *)
(* any other disposition raises nothing.  On another thread the read        *)
(* installs no handler and changes no signal state.                         *)
C14_DeferredInterrupt ==
  [][/\ (dki[MainThread].pc = "readline" /\ ~dki[MainThread].signal_received
         /\ dki'[MainThread].signal_received)
          => (stack' = stack /\ out' = out /\ inbuf' = inbuf /\ log' = log)
     /\ \A t \in Callers :
          /\ (dki[t].pc = "none" /\ dki'[t].pc = "readline" /\ t # MainThread)
               => handler' = handler
          /\ (dki[t].pc = "exit" /\ dki'[t].pc = "none") =>
               IF t = MainThread
               THEN /\ handler' = dki[t].old_handler
                    /\ dki[t].signal_received =>
                         IF dki[t].old_handler = "default_int_handler"
                         THEN out'[t].exc = "KeyboardInterrupt"
                         ELSE out'[t].kind # "raise"
               ELSE handler' = handler]_vars

\* the caller has a call of ESP.query in progress
InsideQuery(t) == \E i \in 1..Len(stack[t]) : stack[t][i].fn = "query"

(* C19: the lock is free whenever no caller is inside query: a query that   *)
(* has finished, by returning a reply or by an error raised in it, has      *)
(* released the lock, and the lock is held by a caller inside query only.   *)
C19_LockFreeOutsideQuery ==
  /\ (\A t \in Callers : ~InsideQuery(t)) => lock = Free
  /\ \A t \in Callers : lock = t => InsideQuery(t)

\* a query has failed with the KeyboardInterrupt raised at the end of its
\* read, and the lock is free
C19_Witness ==
  /\ lock = Free
  /\ \E t \in Callers :
       /\ out[t].exc = "KeyboardInterrupt"
       /\ Len(log[t]) = 2 /\ log[t][2].rw = "r"
       /\ \A u \in Callers : ~InsideQuery(u)

\* the query frames written and the reads made in a log
QueryFrames(l) == {i \in 1..Len(l) : l[i].rw = "w" /\ IsQueryFrame(l[i].data)}
Reads(l) == {i \in 1..Len(l) : l[i].rw = "r"}

(* C20: requests and replies stay balanced on the channel: every operation, *)
(* those wrapped by catch_error included, has written as many query frames  *)
(* (ending in '?') as it has read replies when it ends, so that whenever no *)
(* operation is in progress the two numbers are equal and no unread reply   *)
(* is left for the next query.                                              *)
C20_RequestsMatchReads ==
  \A t \in Callers :
    Finished(t) => Cardinality(QueryFrames(log[t])) = Cardinality(Reads(log[t]))

\* a read of a call in progress has timed out
TimedOut == \E t \in Callers : \E i \in 1..Len(log[t]) : log[t][i] = R("")

\* the caller is in Axis.wait, by itself or at the end of move_to
InWait(t) == \E i \in 1..Len(stack[t]) : stack[t][i].fn = "wait"

\* the serial accesses the call had made when Axis.wait began
WaitMark(t) == stack[t][CHOOSE i \in 1..Len(stack[t]) : stack[t][i].fn = "wait"].mark

(* C18: under fair scheduling Axis.wait, by itself or at the end of a       *)
(* move_to with wait set, eventually returns whenever the controller keeps  *)
(* answering in time and from some point on reports the motion as done; and *)
(* a round of its loop makes no access to the serial port but its own       *)
(* motion-done exchange.                                                    *)
C18_WaitReturns ==
  /\ [](\A t \in Callers :
         InWait(t) =>
           \A i \in (WaitMark(t) + 1)..Len(log[t]) :
             log[t][i] = W("1MD?\r") \/ log[t][i].rw = "r")
  /\ (<>[](~ctlMoving) /\ <>[](~TimedOut))
       => \A t \in Callers : (InWait(t) ~> Finished(t))

====
